---- MODULE Spec2Model ----
(***************************************************************************)
(* Model of the stateful core of the Twitter agent: the MongoDB            *)
(* repository (mentions, tweets, blocked_users, actions collections), the  *)
(* unanswered-mentions / unanswered-tweets use cases and the reply-by-id   *)
(* use case.  Every await on the store or on the Tweet Source is one       *)
(* atomic step of the calling request.  Spec serves one request at a time, *)
(* starting from the empty store; SpecOverlap lets two requests interleave *)
(* at every await, starting from a store one query has filled;             *)
(* SpecFilter runs get_unanswered_mentions once on every small store of    *)
(* unresolved mentions; SpecFault is Spec with a store that can fail a     *)
(* write.                                                                  *)
(***************************************************************************)
EXTENDS Integers, Sequences, FiniteSets, TLC

(* ------------------------------------------------------------------ *)
(* Bounds of the model                                                  *)
(* ------------------------------------------------------------------ *)

\* number of operations (use case calls) started in a run of Spec
MaxOps == 4
\* number of operations started in a run of SpecOverlap
MaxOverlapOps == 2
\* number of mentions in a store SpecFilter starts from
MaxBuffer == 6
\* number of mentions in a store SpecFrame starts from
MaxStored == 8
\* number of operations started in a run of SpecScoped
MaxScopedOps == 3
\* number of operations started in a run of SpecDirect
MaxDirectOps == 3
\* number of operations started in a run of SpecFault
MaxFaultOps == 3
\* number of store writes that fail in a run of SpecFault
MaxFaults == 1

\* the requests in progress at one time are at most these
Procs == {"p1", "p2"}
\* a new request takes the first free slot
Earlier(p) == IF p = "p2" THEN {"p1"} ELSE {}
\* the Tweet Source: the tweets that mention the account, oldest first, their
\* authors and their creation times
Timeline == <<"t1", "t2", "t3">>
TweetIds == {Timeline[i] : i \in DOMAIN Timeline}
Usernames == {"a", "b"}
AuthorOf(t) == IF t = "t3" THEN "b" ELSE "a"
CreatedAt(t) == CHOOSE i \in DOMAIN Timeline : Timeline[i] = t
\* values of the count parameter callers use
Counts == {1, 2}
\* values of the text parameter callers use: a text is its sequence of
\* characters
Texts == {<<"h", "i">>}
\* texts without a visible character: the empty one and a single space
BlankTexts == {<<>>, <<" ">>}
\* the messages reply_to_tweet raises TwitterRepositoryError with
ErrorMessages == {"Timeout replying to tweet", "Failed to reply"}
\* authors and limits of SpecFilter
FilterAuthors == {"A", "B", "C", "D"}
Limits == {1, 2, 3}

(* ------------------------------------------------------------------ *)
(* Program constants                                                    *)
(* ------------------------------------------------------------------ *)

\* config.MAX_IGNORED_BEFORE_BLOCK (read from configuration; the model runs
\* with a small configured value)
MAX_IGNORED_BEFORE_BLOCK == 1

\* Optional[...] values: None, or a present value
None == <<>>
Some(x) == <<x>>

\* TweetType / IgnoredReason / BlockedReason values
MENTION == "mention"
REGULAR == "regular"
DUPLICATE_USER == "duplicate_user"
EXCESSIVE_MENTIONS == "excessive_mentions"

VARIABLES
    mentions,       \* db.mentions: set of documents
    tweets,         \* db.tweets: set of documents
    blocked_users,  \* db.blocked_users: set of documents
    actions,        \* db.actions: the audit log, in insertion order
    twitter,        \* reply/quote calls the Tweet Source received, in order
    clock,          \* objects built so far: source of uuid4() and utcnow()
    budget,         \* operations the run may still start
    faults,         \* store writes that failed so far, by kind
    pc,             \* position of each request
    lv,             \* local variables of each request
    ret             \* what each request's last operation returned or raised

vars == <<mentions, tweets, blocked_users, actions, twitter, clock, budget, faults, pc, lv, ret>>

(* ------------------------------------------------------------------ *)
(* Domain models                                                        *)
(* ------------------------------------------------------------------ *)

\* the keys of a document whose value may be None
OptionalKeys == {"repliedAt", "replyTweetId", "ignoredReason", "ignoredAt"}

\* StoredTweet(...) as from_tweet builds it: a fresh idTweet, firstSeenAt =
\* now, nothing resolved
NewStoredTweet(tweet_id, author_username, created_at, tweet_type, now) ==
    [ idTweet        |-> now,
      tweetId        |-> tweet_id,
      authorUsername |-> author_username,
      createdAt      |-> created_at,
      type           |-> tweet_type,
      repliedTo      |-> FALSE,
      repliedAt      |-> None,
      replyTweetId   |-> None,
      ignored        |-> FALSE,
      ignoredReason  |-> None,
      ignoredAt      |-> None,
      firstSeenAt    |-> now,
      lastUpdatedAt  |-> now ]

\* StoredTweet.from_tweet(tweet, tweet_type)
FromTweet(t, tweet_type, now) ==
    NewStoredTweet(t, AuthorOf(t), CreatedAt(t), tweet_type, now)

\* StoredTweet.to_dict: the keys whose value is not None
ToDict(m) ==
    [k \in {x \in DOMAIN m : x \notin OptionalKeys \/ m[x] # None} |-> m[k]]

\* a document as the collection holds it: keys absent from d read as None
AsDoc(d) ==
    [k \in DOMAIN d \cup OptionalKeys |-> IF k \in DOMAIN d THEN d[k] ELSE None]

\* StoredTweet.to_api_dict: what a query hands back for one item
ToApiDict(m) ==
    [ idTweet |-> m.idTweet, tweetId |-> m.tweetId,
      authorUsername |-> m.authorUsername, type |-> m.type,
      repliedTo |-> m.repliedTo, ignored |-> m.ignored ]

\* update_one(..., {"$set": d}) applied to one document
SetFields(doc, d) ==
    [k \in DOMAIN doc |-> IF k \in DOMAIN d THEN d[k] ELSE doc[k]]

(* ------------------------------------------------------------------ *)
(* Store primitives                                                     *)
(* ------------------------------------------------------------------ *)

\* a collection without unique indexes: insert_one never raises
DuplicateKey_Never(coll, d) == FALSE

\* the unique indexes on tweetId and on idTweet: insert_one raises
\* DuplicateKeyError
DuplicateKey(coll, d) ==
    \E x \in coll : x.tweetId = d.tweetId \/ x.idTweet = d.idTweet

\* update_one({"tweetId": t}, {"$set": d})
UpdateByTweetId(coll, t, d) ==
    {IF x.tweetId = t THEN SetFields(x, d) ELSE x : x \in coll}

\* an update_many with an empty filter
UpdateByIdTweet_All(coll, i, d) == {SetFields(x, d) : x \in coll}

\* update_one({"idTweet": i}, {"$set": d})
UpdateByIdTweet(coll, i, d) ==
    {IF x.idTweet = i THEN SetFields(x, d) ELSE x : x \in coll}

\* store_mention / store_tweet: insert, and on DuplicateKeyError update.  One
\* step: documents are never deleted, so the update finds the document the
\* insert collided with, and a write another request makes between the two
\* calls is overwritten just as one made before the insert.
StoreDoc(coll, m) ==
    IF DuplicateKey(coll, ToDict(m))
    THEN UpdateByTweetId(coll, m.tweetId, ToDict(m))
    ELSE coll \cup {AsDoc(ToDict(m))}

StoreMention(coll, m) == StoreDoc(coll, m)

StoreTweet(coll, m) == StoreDoc(coll, m)

\* a find_one that ignores its filter
FindByIdTweet_Any(coll, i) == coll

\* find_one({"idTweet": i}): the documents found (none or one)
FindByIdTweet(coll, i) == {x \in coll : x.idTweet = i}

\* mark_mention_as_replied / mark_tweet_as_replied
MarkReplied(coll, i, reply_tweet_id, now) ==
    UpdateByIdTweet(coll, i,
        [ repliedTo |-> TRUE, repliedAt |-> Some(now),
          replyTweetId |-> Some(reply_tweet_id), lastUpdatedAt |-> now ])

\* a mark_mention_as_ignored that writes nothing
MarkIgnored_Noop(coll, i, reason, now) == coll

\* mark_mention_as_ignored
MarkIgnored(coll, i, reason, now) ==
    UpdateByIdTweet(coll, i,
        [ ignored |-> TRUE, ignoredReason |-> Some(reason),
          ignoredAt |-> Some(now), lastUpdatedAt |-> now ])

\* get_blocked_usernames
BlockedUsernames == {b.username : b \in blocked_users}

\* sort(key, -1)
RECURSIVE SortDesc(_, _)
SortDesc(S, key) ==
    IF S = {} THEN <<>>
    ELSE LET m == CHOOSE x \in S : \A y \in S : y[key] <= x[key]
         IN  <<m>> \o SortDesc(S \ {m}, key)

\* cursor.limit(n)
Take(s, n) == IF Len(s) <= n THEN s ELSE SubSeq(s, 1, n)

\* a filter document without the "$nin" on authorUsername
Unanswered_AnyAuthor(x, blocked_usernames) ==
    /\ x.repliedTo = FALSE
    /\ x.ignored = FALSE

\* the filter document of get_unanswered_mentions
Unanswered(x, blocked_usernames) ==
    /\ x.repliedTo = FALSE
    /\ x.ignored = FALSE
    /\ x.authorUsername \notin blocked_usernames

\* the cursor of get_unanswered_mentions: find, sort, limit(limit * 3)
FindUnanswered(coll, blocked_usernames, limit) ==
    Take(SortDesc({x \in coll : Unanswered(x, blocked_usernames)}, "firstSeenAt"),
         limit * 3)

\* a scoped filter document without the author condition
UnansweredBy_AnyAuthor(x, username) ==
    /\ x.repliedTo = FALSE
    /\ x.ignored = FALSE

\* the filter document of get_unanswered_mentions(username=...): unresolved,
\* unignored mentions of that author
UnansweredBy(x, username) ==
    /\ x.repliedTo = FALSE
    /\ x.ignored = FALSE
    /\ x.authorUsername = username

\* the cursor of get_unanswered_mentions(username=...): find, sort, limit;
\* no per-author filter and no block check
FindUnansweredBy(coll, username, limit) ==
    Take(SortDesc({x \in coll : UnansweredBy(x, username)}, "firstSeenAt"), limit)

\* a filter document without the repliedTo and ignored conditions
UnansweredFromUser_AnyState(x, username) ==
    /\ x.authorUsername = username
    /\ x.type = REGULAR

\* the filter document of get_unanswered_tweets_from_user
UnansweredFromUser(x, username) ==
    /\ x.authorUsername = username
    /\ x.type = REGULAR
    /\ x.repliedTo = FALSE
    /\ x.ignored = FALSE

\* the cursor of get_unanswered_tweets_from_user: find, sort, limit(limit)
FindUnansweredFromUser(coll, username, limit) ==
    Take(SortDesc({x \in coll : UnansweredFromUser(x, username)}, "createdAt"), limit)

\* a loop that stops one kept item late
LoopStops_Late(filtered, limit) == Len(filtered) > limit

\* whether the loop of the abuse filter stops before looking at an item
LoopStops(filtered, limit) == Len(filtered) >= limit

\* a loop that keeps every item
IsFirstOfUser_Always(username, seen_users) == TRUE

\* whether the loop keeps the item of this author
IsFirstOfUser(username, seen_users) == username \notin seen_users

\* the loop of get_unanswered_mentions over all_mentions, from position i
RECURSIVE FilterLoop(_, _, _, _, _, _)
FilterLoop(all, i, limit, filtered, seen_users, to_ignore) ==
    IF i > Len(all) \/ LoopStops(filtered, limit)
    THEN [filtered |-> filtered, to_ignore |-> to_ignore]
    ELSE LET username == all[i].authorUsername IN
         IF IsFirstOfUser(username, seen_users)
         THEN FilterLoop(all, i + 1, limit, Append(filtered, all[i]),
                         seen_users \cup {username}, to_ignore)
         ELSE FilterLoop(all, i + 1, limit, filtered, seen_users,
                         Append(to_ignore, <<all[i].idTweet, username>>))

AbuseFilter(all, limit) == FilterLoop(all, 1, limit, <<>>, {}, <<>>)

\* count_documents({"authorUsername": u, "ignored": True})
IgnoredCount(coll, username) ==
    Cardinality({x \in coll : x.authorUsername = username /\ x.ignored})

\* a block_user on a collection without the unique index on username
BlockUser_NoIndex(coll, b) == coll \cup {b}

\* block_user: insert_one under the unique index on username
BlockUser(coll, b) ==
    IF \E x \in coll : x.username = b.username THEN coll ELSE coll \cup {b}

(* ------------------------------------------------------------------ *)
(* Requests                                                             *)
(* ------------------------------------------------------------------ *)

LvIdle ==
    [ raw |-> <<>>, count |-> 0, username |-> "", blocked_usernames |-> {},
      all_mentions |-> <<>>, filtered |-> <<>>, to_ignore |-> <<>>,
      ignored_count |-> 0,
      id_tweet |-> 0, quoted |-> FALSE, stored_item |-> None,
      text |-> <<>>, error_message |-> None, tweet_id |-> "",
      started_at |-> 0, failed |-> {},
      seen_ok |-> {}, seen_blocked |-> {} ]

RetNone == [op |-> "none", status |-> "none", items |-> <<>>]

\* no write has failed
NoFaults == [store |-> 0, mark |-> 0, log |-> 0]

\* read_last_mentions(n): the n most recent mentions, most recent first
RECURSIVE LastOf(_, _, _)
LastOf(i, n, authors) ==
    IF i = 0 \/ n = 0 THEN <<>>
    ELSE IF AuthorOf(Timeline[i]) \in authors
         THEN <<Timeline[i]>> \o LastOf(i - 1, n - 1, authors)
         ELSE LastOf(i - 1, n, authors)

ReadLastMentions(n) == LastOf(Len(Timeline), n, Usernames)

\* read_last_tweets(username, n): the n most recent tweets of the user
ReadLastTweets(username, n) == LastOf(Len(Timeline), n, {username})

\* tweet ids of the mentions whose resolve has succeeded: marked replied, with
\* a successful reply/quote entry in the audit log
AnsweredOk ==
    {x.tweetId : x \in {y \in mentions :
        /\ y.repliedTo
        /\ \E j \in DOMAIN actions :
              actions[j].success /\ actions[j].targetIdTweet = y.idTweet}}

Init ==
    /\ mentions = {}
    /\ tweets = {}
    /\ blocked_users = {}
    /\ actions = <<>>
    /\ twitter = <<>>
    /\ clock = 0
    /\ budget = MaxOps
    /\ faults = NoFaults
    /\ pc = [p \in Procs |-> "idle"]
    /\ lv = [p \in Procs |-> LvIdle]
    /\ ret = [p \in Procs |-> RetNone]

(* ------------------------------------------------------------------ *)
(* GetUnansweredMentionsUseCase.execute(count)                          *)
(* ------------------------------------------------------------------ *)

\* a new request may start in slot p
CanStart(p) ==
    /\ pc[p] = "idle"
    /\ \A q \in Earlier(p) : pc[q] # "idle"
    /\ budget > 0

\* the operation returns: the request is idle again
Return(p, r) ==
    /\ pc' = [pc EXCEPT ![p] = "idle"]
    /\ lv' = [lv EXCEPT ![p] = LvIdle]
    /\ ret' = [ret EXCEPT ![p] = r]

QueryResult(op, found) ==
    [ op |-> op, status |-> "ok",
      items |-> [i \in DOMAIN found |-> ToApiDict(found[i])] ]

MentionsResult(p, filtered) == QueryResult("mentions", filtered)

\* step 1: read_last_mentions(count * 2)
MQ_Fetch(p) ==
    /\ CanStart(p)
    /\ budget' = budget - 1
    /\ \E count \in Counts :
        /\ lv' = [lv EXCEPT ![p] =
                    [LvIdle EXCEPT !.raw = ReadLastMentions(count * 2),
                                   !.count = count,
                                   !.started_at = clock,
                                   !.seen_ok = AnsweredOk,
                                   !.seen_blocked = BlockedUsernames]]
    /\ pc' = [pc EXCEPT ![p] = "mq_store"]
    /\ ret' = [ret EXCEPT ![p] = RetNone]
    /\ UNCHANGED <<faults, mentions, tweets, blocked_users, actions, twitter, clock>>

\* step 2, once per fetched tweet: build the Mention and store_mention it
MQ_Store(p) ==
    /\ pc[p] = "mq_store"
    /\ lv[p].raw # <<>>
    /\ clock' = clock + 1
    /\ mentions' = StoreMention(mentions, FromTweet(Head(lv[p].raw), MENTION, clock + 1))
    /\ lv' = [lv EXCEPT ![p].raw = Tail(@)]
    /\ UNCHANGED <<faults, budget, tweets, blocked_users, actions, twitter, pc, ret>>

\* get_unanswered_mentions: get_blocked_usernames
MQ_Blocked(p) ==
    /\ pc[p] = "mq_store"
    /\ lv[p].raw = <<>>
    /\ lv' = [lv EXCEPT ![p].blocked_usernames = BlockedUsernames]
    /\ pc' = [pc EXCEPT ![p] = "mq_find"]
    /\ UNCHANGED <<faults, budget, mentions, tweets, blocked_users, actions, twitter, clock, ret>>

\* get_unanswered_mentions: the cursor, then the abuse filter's loop
MQ_Find(p) ==
    /\ pc[p] = "mq_find"
    /\ LET all_mentions == FindUnanswered(mentions, lv[p].blocked_usernames, lv[p].count)
           out == AbuseFilter(all_mentions, lv[p].count)
       IN  IF out.to_ignore = <<>>
           THEN Return(p, MentionsResult(p, out.filtered))
           ELSE /\ lv' = [lv EXCEPT ![p].all_mentions = all_mentions,
                                    ![p].filtered = out.filtered,
                                    ![p].to_ignore = out.to_ignore]
                /\ pc' = [pc EXCEPT ![p] = "mq_mark"]
                /\ ret' = ret
    /\ UNCHANGED <<faults, budget, mentions, tweets, blocked_users, actions, twitter, clock>>

\* mark_mention_as_ignored(id_tweet, DUPLICATE_USER) of the next duplicate
MQ_Mark(p) ==
    /\ pc[p] = "mq_mark"
    /\ mentions' = MarkIgnored(mentions, Head(lv[p].to_ignore)[1], DUPLICATE_USER, clock)
    /\ pc' = [pc EXCEPT ![p] = "mq_count"]
    /\ UNCHANGED <<faults, budget, tweets, blocked_users, actions, twitter, clock, lv, ret>>

\* the duplicate is done: the next one, or the return of filtered_mentions
NextDuplicate(p) ==
    IF Len(lv[p].to_ignore) = 1
    THEN Return(p, MentionsResult(p, lv[p].filtered))
    ELSE /\ lv' = [lv EXCEPT ![p].to_ignore = Tail(@), ![p].ignored_count = 0]
         /\ pc' = [pc EXCEPT ![p] = "mq_mark"]
         /\ ret' = ret

\* check_and_block_user: count_documents, and the threshold test
ReachesThreshold(ignored_count) == ignored_count >= MAX_IGNORED_BEFORE_BLOCK

MQ_Count(p) ==
    /\ pc[p] = "mq_count"
    /\ LET ignored_count == IgnoredCount(mentions, Head(lv[p].to_ignore)[2])
       IN  IF ReachesThreshold(ignored_count)
           THEN /\ lv' = [lv EXCEPT ![p].ignored_count = ignored_count]
                /\ pc' = [pc EXCEPT ![p] = "mq_block"]
                /\ ret' = ret
           ELSE NextDuplicate(p)
    /\ UNCHANGED <<faults, budget, mentions, tweets, blocked_users, actions, twitter, clock>>

\* what check_and_block_user appends to the audit log when it blocks
BlockAudit(username) == <<>>

\* check_and_block_user: block_user(BlockedUser(..., blocked_at = utcnow()))
MQ_Block(p) ==
    /\ pc[p] = "mq_block"
    /\ clock' = clock + 1
    /\ LET username == Head(lv[p].to_ignore)[2]
       IN  /\ blocked_users' = BlockUser(blocked_users,
                [ username |-> username, blockedAt |-> clock + 1,
                  blockedReason |-> EXCESSIVE_MENTIONS,
                  ignoredMentions |-> lv[p].ignored_count ])
           /\ actions' = actions \o BlockAudit(username)
    /\ NextDuplicate(p)
    /\ UNCHANGED <<faults, budget, mentions, tweets, twitter>>

MentionsQuery(p) ==
    \/ MQ_Fetch(p)
    \/ MQ_Store(p)
    \/ MQ_Blocked(p)
    \/ MQ_Find(p)
    \/ MQ_Mark(p)
    \/ MQ_Count(p)
    \/ MQ_Block(p)

(* ------------------------------------------------------------------ *)
(* GetUnansweredTweetsFromUserUseCase.execute(username, count)          *)
(* ------------------------------------------------------------------ *)

\* step 1: read_last_tweets(username, count * 2)
TQ_Fetch(p) ==
    /\ CanStart(p)
    /\ budget' = budget - 1
    /\ \E username \in Usernames, count \in Counts :
        /\ lv' = [lv EXCEPT ![p] =
                    [LvIdle EXCEPT !.raw = ReadLastTweets(username, count * 2),
                                   !.count = count,
                                   !.started_at = clock,
                                   !.username = username]]
    /\ pc' = [pc EXCEPT ![p] = "tq_store"]
    /\ ret' = [ret EXCEPT ![p] = RetNone]
    /\ UNCHANGED <<faults, mentions, tweets, blocked_users, actions, twitter, clock>>

\* step 2, once per fetched tweet: build the StoredTweet and store_tweet it
TQ_Store(p) ==
    /\ pc[p] = "tq_store"
    /\ lv[p].raw # <<>>
    /\ clock' = clock + 1
    /\ tweets' = StoreTweet(tweets, FromTweet(Head(lv[p].raw), REGULAR, clock + 1))
    /\ lv' = [lv EXCEPT ![p].raw = Tail(@)]
    /\ UNCHANGED <<faults, budget, mentions, blocked_users, actions, twitter, pc, ret>>

\* step 3: get_unanswered_tweets_from_user(username, count), and the return
TQ_Find(p) ==
    /\ pc[p] = "tq_store"
    /\ lv[p].raw = <<>>
    /\ Return(p, QueryResult("tweets",
                 FindUnansweredFromUser(tweets, lv[p].username, lv[p].count)))
    /\ UNCHANGED <<faults, budget, mentions, tweets, blocked_users, actions, twitter, clock>>

TweetsQuery(p) ==
    \/ TQ_Fetch(p)
    \/ TQ_Store(p)
    \/ TQ_Find(p)

(* ------------------------------------------------------------------ *)
(* ReplyByIdTweetUseCase.execute(id_tweet, text, quoted)                *)
(* ------------------------------------------------------------------ *)

\* the internal ids callers pass: the ids the store holds and, standing for
\* every id it does not hold, 0
IdTweets == {x.idTweet : x \in mentions \cup tweets} \cup {0}

ActionType(quoted) == IF quoted THEN "quote_tweet" ELSE "reply"

\* a use case without the guard
AlreadyReplied_Never(stored_item) == FALSE

\* the guard "if stored_item.replied_to"
AlreadyReplied(stored_item) == stored_item.repliedTo

ResolveResult(status, tweet_id, id_tweet, quoted) ==
    [ op |-> "resolve", status |-> status,
      items |-> <<[idTweet |-> id_tweet, tweetId |-> tweet_id, quoted |-> quoted]>> ]

\* the HTTP status reply_by_id_tweet answers with: ValueError is 404
\* NOT_FOUND, TwitterRepositoryError is 503, any other exception is 500, a
\* returned ReplyResult is 200
HttpStatus(status) ==
    CASE status = "ValueError" -> 404
      [] status = "TwitterRepositoryError" -> 503
      [] status = "Exception" -> 500
      [] OTHER -> 200

\* str.strip() of a text: leading and trailing whitespace removed
RECURSIVE LStrip(_)
LStrip(text) ==
    IF text # <<>> /\ Head(text) = " " THEN LStrip(Tail(text)) ELSE text

RECURSIVE RStrip(_)
RStrip(text) ==
    IF text # <<>> /\ text[Len(text)] = " "
    THEN RStrip(SubSeq(text, 1, Len(text) - 1))
    ELSE text

Strip(text) == RStrip(LStrip(text))

\* the request schemas: text has min_length 1 and max_length 280, checked
\* before the endpoint runs (HTTP 422)
SchemaRejects(text) == Len(text) < 1 \/ Len(text) > 280

\* step 1 for a text of the set texts: get_mention_by_id_tweet, else
\* get_tweet_by_id_tweet; the two checks
R_LookupWith(p, texts) ==
    /\ CanStart(p)
    /\ budget' = budget - 1
    /\ \E id_tweet \in IdTweets, text \in texts, quoted \in BOOLEAN :
        LET found == IF FindByIdTweet(mentions, id_tweet) # {}
                     THEN FindByIdTweet(mentions, id_tweet)
                     ELSE FindByIdTweet(tweets, id_tweet)
        IN  IF SchemaRejects(text)
            THEN Return(p, ResolveResult("RequestValidationError", "", id_tweet, quoted))
            ELSE IF found = {}
            THEN Return(p, ResolveResult("ValueError", "", id_tweet, quoted))
            ELSE LET stored_item == CHOOSE x \in found : TRUE IN
                 IF AlreadyReplied(stored_item)
                 THEN Return(p, ResolveResult("ALREADY_REPLIED",
                                              stored_item.tweetId, id_tweet, quoted))
                 ELSE /\ lv' = [lv EXCEPT ![p] =
                                  [LvIdle EXCEPT !.id_tweet = id_tweet,
                                                 !.text = text,
                                                 !.quoted = quoted,
                                                 !.stored_item = Some(stored_item)]]
                      /\ pc' = [pc EXCEPT ![p] = "r_act"]
                      /\ ret' = [ret EXCEPT ![p] = RetNone]
    /\ UNCHANGED <<faults, mentions, tweets, blocked_users, actions, twitter, clock>>

\* step 1 of a resolve request with one of the usual texts
R_Lookup(p) == R_LookupWith(p, Texts)

\* a reply/quote call as the Tweet Source receives it; created is the
\* external id of the tweet a successful call has posted
TwitterCall(p, ok) ==
    [ kind |-> ActionType(lv[p].quoted), tweetId |-> lv[p].stored_item[1].tweetId,
      idTweet |-> lv[p].id_tweet, text |-> lv[p].text, ok |-> ok,
      created |-> IF ok THEN Some("r" \o ToString(Len(twitter) + 1)) ELSE None,
      error |-> None ]

\* step 2: quote_tweet / reply_to_tweet succeeds
R_ActOk(p) ==
    /\ pc[p] = "r_act"
    /\ twitter' = Append(twitter, TwitterCall(p, TRUE))
    /\ pc' = [pc EXCEPT ![p] = "r_mark"]
    /\ UNCHANGED <<faults, budget, mentions, tweets, blocked_users, actions, clock, lv, ret>>

\* step 2: quote_tweet / reply_to_tweet raises TwitterRepositoryError
R_ActFail(p) ==
    /\ pc[p] = "r_act"
    /\ \E e_message \in ErrorMessages :
        /\ twitter' = Append(twitter,
                [TwitterCall(p, FALSE) EXCEPT !.error = Some(e_message)])
        /\ lv' = [lv EXCEPT ![p].error_message = Some(e_message)]
    /\ pc' = [pc EXCEPT ![p] = "r_logfail"]
    /\ UNCHANGED <<faults, budget, mentions, tweets, blocked_users, actions, clock, ret>>

\* result.reply_tweet_id or "unknown": reply_to_tweet sets no reply_tweet_id
ReplyTweetId == "unknown"

\* step 3: mark_mention_as_replied / mark_tweet_as_replied by idTweet
R_Mark(p) ==
    /\ pc[p] = "r_mark"
    /\ IF lv[p].stored_item[1].type = MENTION
       THEN /\ mentions' = MarkReplied(mentions, lv[p].id_tweet, ReplyTweetId, clock)
            /\ tweets' = tweets
       ELSE /\ tweets' = MarkReplied(tweets, lv[p].id_tweet, ReplyTweetId, clock)
            /\ mentions' = mentions
    /\ pc' = [pc EXCEPT ![p] = "r_logok"]
    /\ UNCHANGED <<faults, budget, blocked_users, actions, twitter, clock, lv, ret>>

\* an Action without error detail and metadata
ReplyAction_Bare(p, success) ==
    [ actionType |-> ActionType(lv[p].quoted),
      success |-> success,
      targetTweetId |-> lv[p].stored_item[1].tweetId,
      targetIdTweet |-> lv[p].id_tweet,
      targetUsername |-> lv[p].stored_item[1].authorUsername,
      resultTweetId |-> None,
      errorMessage |-> None,
      metadata |-> None ]

\* the Action the use case logs
ReplyAction(p, success) ==
    [ actionType |-> ActionType(lv[p].quoted),
      success |-> success,
      targetTweetId |-> lv[p].stored_item[1].tweetId,
      targetIdTweet |-> lv[p].id_tweet,
      targetUsername |-> lv[p].stored_item[1].authorUsername,
      resultTweetId |-> IF success THEN Some(ReplyTweetId) ELSE None,
      errorMessage |-> IF success THEN None ELSE lv[p].error_message,
      metadata |-> IF success
                   THEN Some([text |-> lv[p].text, quoted |-> lv[p].quoted])
                   ELSE None ]

\* a log_action that writes nothing
LogAction_Drop(log, action) == log

\* a log_action that replaces the log by the new entry
LogAction_Replace(log, action) == <<action>>

\* log_action: insert_one into the audit log
LogAction(log, action) == Append(log, action)

\* step 4: log the successful action and return the ReplyResult
R_LogOk(p) ==
    /\ pc[p] = "r_logok"
    /\ actions' = LogAction(actions, ReplyAction(p, TRUE))
    /\ Return(p, ResolveResult("ok", lv[p].stored_item[1].tweetId,
                               lv[p].id_tweet, lv[p].quoted))
    /\ UNCHANGED <<faults, budget, mentions, tweets, blocked_users, twitter, clock>>

\* the except branch: log the failed action and re-raise
R_LogFail(p) ==
    /\ pc[p] = "r_logfail"
    /\ actions' = LogAction(actions, ReplyAction(p, FALSE))
    /\ Return(p, ResolveResult("TwitterRepositoryError",
                               lv[p].stored_item[1].tweetId,
                               lv[p].id_tweet, lv[p].quoted))
    /\ UNCHANGED <<faults, budget, mentions, tweets, blocked_users, twitter, clock>>

Resolve(p) ==
    \/ R_Lookup(p)
    \/ R_ActOk(p)
    \/ R_ActFail(p)
    \/ R_Mark(p)
    \/ R_LogOk(p)
    \/ R_LogFail(p)

Request(p) == MentionsQuery(p) \/ TweetsQuery(p) \/ Resolve(p)

\* one request at a time
Next == Request("p1")

Spec == Init /\ [][Next]_vars

(* ------------------------------------------------------------------ *)
(* Overlapping requests                                                 *)
(* ------------------------------------------------------------------ *)

\* the store after GetUnansweredMentionsUseCase.execute(1) on the empty store
OneQueryMentions ==
    StoreMention(StoreMention({}, FromTweet("t3", MENTION, 1)),
                 FromTweet("t2", MENTION, 2))

OneQueryResult ==
    MentionsResult("p1", AbuseFilter(FindUnanswered(OneQueryMentions, {}, 1), 1).filtered)

\* the state after that query returned
AfterOneQuery ==
    /\ mentions = OneQueryMentions
    /\ tweets = {}
    /\ blocked_users = {}
    /\ actions = <<>>
    /\ twitter = <<>>
    /\ clock = 2
    /\ faults = NoFaults
    /\ pc = [p \in Procs |-> "idle"]
    /\ lv = [p \in Procs |-> LvIdle]
    /\ ret = [p \in Procs |-> IF p = "p1" THEN OneQueryResult ELSE RetNone]

InitOverlap == AfterOneQuery /\ budget = MaxOverlapOps

\* requests interleave at every await
NextOverlap == \E p \in Procs : Request(p)

SpecOverlap == InitOverlap /\ [][NextOverlap]_vars

(* ------------------------------------------------------------------ *)
(* get_unanswered_mentions(limit, apply_abuse_filter=True) on its own   *)
(* ------------------------------------------------------------------ *)

\* a store of n unresolved mentions, the i-th stored one by author_of[i]
StoreOf(n, author_of) ==
    {NewStoredTweet("m" \o ToString(i), author_of[i], i, MENTION, i) : i \in 1..n}

InitFilter ==
    /\ \E n \in 0..MaxBuffer :
         \E author_of \in [1..n -> FilterAuthors] :
            /\ mentions = StoreOf(n, author_of)
            /\ clock = n
    /\ tweets = {}
    /\ blocked_users = {}
    /\ actions = <<>>
    /\ twitter = <<>>
    /\ budget = 1
    /\ faults = NoFaults
    /\ pc = [p \in Procs |-> "idle"]
    /\ lv = [p \in Procs |-> LvIdle]
    /\ ret = [p \in Procs |-> RetNone]

\* the repository method is called with a limit
GM_Call(p) ==
    /\ CanStart(p)
    /\ budget' = budget - 1
    /\ \E limit \in Limits :
        lv' = [lv EXCEPT ![p] = [LvIdle EXCEPT !.count = limit]]
    /\ pc' = [pc EXCEPT ![p] = "mq_store"]
    /\ ret' = [ret EXCEPT ![p] = RetNone]
    /\ UNCHANGED <<faults, mentions, tweets, blocked_users, actions, twitter, clock>>

NextFilter ==
    \/ GM_Call("p1")
    \/ MQ_Blocked("p1")
    \/ MQ_Find("p1")
    \/ MQ_Mark("p1")
    \/ MQ_Count("p1")
    \/ MQ_Block("p1")

SpecFilter == InitFilter /\ [][NextFilter]_vars


(* ------------------------------------------------------------------ *)
(* SpecScoped: one request at a time, with the mentions query also      *)
(* called for one author: execute(count, username)                      *)
(* ------------------------------------------------------------------ *)

\* step 1: read_last_mentions(count * 2)
SQ_Fetch(p) ==
    /\ CanStart(p)
    /\ budget' = budget - 1
    /\ \E username \in Usernames, count \in Counts :
        /\ lv' = [lv EXCEPT ![p] =
                    [LvIdle EXCEPT !.raw = ReadLastMentions(count * 2),
                                   !.count = count,
                                   !.started_at = clock,
                                   !.username = username]]
    /\ pc' = [pc EXCEPT ![p] = "sq_store"]
    /\ ret' = [ret EXCEPT ![p] = RetNone]
    /\ UNCHANGED <<faults, mentions, tweets, blocked_users, actions, twitter, clock>>

\* step 2, once per fetched tweet: build the Mention and store_mention it
SQ_Store(p) ==
    /\ pc[p] = "sq_store"
    /\ lv[p].raw # <<>>
    /\ clock' = clock + 1
    /\ mentions' = StoreMention(mentions, FromTweet(Head(lv[p].raw), MENTION, clock + 1))
    /\ lv' = [lv EXCEPT ![p].raw = Tail(@)]
    /\ UNCHANGED <<faults, budget, tweets, blocked_users, actions, twitter, pc, ret>>

\* step 3: get_unanswered_mentions(limit=count, username=username), and the
\* return
SQ_Find(p) ==
    /\ pc[p] = "sq_store"
    /\ lv[p].raw = <<>>
    /\ Return(p, QueryResult("scoped",
                 FindUnansweredBy(mentions, lv[p].username, lv[p].count)))
    /\ UNCHANGED <<faults, budget, mentions, tweets, blocked_users, actions, twitter, clock>>

ScopedQuery(p) == SQ_Fetch(p) \/ SQ_Store(p) \/ SQ_Find(p)

InitScoped ==
    /\ mentions = {}
    /\ tweets = {}
    /\ blocked_users = {}
    /\ actions = <<>>
    /\ twitter = <<>>
    /\ clock = 0
    /\ budget = MaxScopedOps
    /\ faults = NoFaults
    /\ pc = [p \in Procs |-> "idle"]
    /\ lv = [p \in Procs |-> LvIdle]
    /\ ret = [p \in Procs |-> RetNone]

NextScoped == Request("p1") \/ ScopedQuery("p1")

SpecScoped == InitScoped /\ [][NextScoped]_vars

(* ------------------------------------------------------------------ *)
(* SpecDirect: one request at a time, with reply by external id         *)
(* (ReplyToTweetUseCase with a store), post, and any text               *)
(* ------------------------------------------------------------------ *)

\* the texts a caller may send
AnyTexts == Texts \cup BlankTexts

\* "if not text or not text.strip()" and "len(text) > 280": ValueError
TextInvalid(text) == text = <<>> \/ Strip(text) = <<>> \/ Len(text) > 280

\* find_one({"tweetId": t}): the documents found (none or one)
FindByTweetId(coll, t) == {x \in coll : x.tweetId = t}

\* get_mention_by_twitter_id
GetMentionByTwitterId(t) == FindByTweetId(mentions, t)

\* what a reply or post request returns
DirectResult(op, status, tweet_id, text) ==
    [ op |-> op, status |-> status,
      items |-> <<[tweetId |-> tweet_id, text |-> text]>> ]

\* a reply call of ReplyToTweetUseCase or a post call as the Tweet Source
\* receives it; target_state tells whether the target was stored as an
\* unresolved mention when the call was made
DirectCall(kind, tweet_id, text, ok, e_message) ==
    [ kind |-> kind, via |-> "direct", tweetId |-> tweet_id, idTweet |-> 0,
      text |-> text, ok |-> ok,
      created |-> IF ok THEN Some("r" \o ToString(Len(twitter) + 1)) ELSE None,
      error |-> e_message,
      target_state |-> IF \E m \in GetMentionByTwitterId(tweet_id) :
                              ~m.repliedTo /\ ~m.ignored
                       THEN "unresolved_mention" ELSE "other" ]

\* ReplyToTweetUseCase.execute(tweet_id, text): the schema, then the text
\* checks
D_Start(p) ==
    /\ CanStart(p)
    /\ budget' = budget - 1
    /\ \E tweet_id \in TweetIds, text \in AnyTexts :
        IF SchemaRejects(text)
        THEN Return(p, DirectResult("reply", "RequestValidationError", tweet_id, text))
        ELSE IF TextInvalid(text)
        THEN Return(p, DirectResult("reply", "ValueError", tweet_id, text))
        ELSE /\ lv' = [lv EXCEPT ![p] = [LvIdle EXCEPT !.tweet_id = tweet_id,
                                                       !.text = text]]
             /\ pc' = [pc EXCEPT ![p] = "d_act"]
             /\ ret' = [ret EXCEPT ![p] = RetNone]
    /\ UNCHANGED <<faults, mentions, tweets, blocked_users, actions, twitter, clock>>

\* reply_to_tweet succeeds
D_ActOk(p) ==
    /\ pc[p] = "d_act"
    /\ twitter' = Append(twitter,
            DirectCall("reply", lv[p].tweet_id, lv[p].text, TRUE, None))
    /\ pc' = [pc EXCEPT ![p] = "d_find"]
    /\ UNCHANGED <<faults, budget, mentions, tweets, blocked_users, actions, clock, lv, ret>>

\* reply_to_tweet raises TwitterRepositoryError
D_ActFail(p) ==
    /\ pc[p] = "d_act"
    /\ \E e_message \in ErrorMessages :
        /\ twitter' = Append(twitter,
                DirectCall("reply", lv[p].tweet_id, lv[p].text, FALSE, Some(e_message)))
        /\ lv' = [lv EXCEPT ![p].error_message = Some(e_message)]
    /\ pc' = [pc EXCEPT ![p] = "d_logfail"]
    /\ UNCHANGED <<faults, budget, mentions, tweets, blocked_users, actions, clock, ret>>

\* the stored item with an external id: the mention, else the tweet
StoredByTweetId(t) ==
    IF GetMentionByTwitterId(t) # {}
    THEN GetMentionByTwitterId(t)
    ELSE FindByTweetId(tweets, t)

\* _mark_as_replied_in_mongodb: get_mention_by_twitter_id, else
\* get_tweet_by_twitter_id; nothing stored ends the request
D_Find(p) ==
    /\ pc[p] = "d_find"
    /\ LET found == StoredByTweetId(lv[p].tweet_id)
       IN  IF found = {}
           THEN Return(p, DirectResult("reply", "ok", lv[p].tweet_id, lv[p].text))
           ELSE /\ lv' = [lv EXCEPT ![p].stored_item = Some(CHOOSE x \in found : TRUE)]
                /\ pc' = [pc EXCEPT ![p] = "d_mark"]
                /\ ret' = ret
    /\ UNCHANGED <<faults, budget, mentions, tweets, blocked_users, actions, twitter, clock>>

\* _mark_as_replied_in_mongodb: mark_mention_as_replied / mark_tweet_as_replied
\* by the idTweet read
D_Mark(p) ==
    /\ pc[p] = "d_mark"
    /\ IF lv[p].stored_item[1].type = MENTION
       THEN /\ mentions' = MarkReplied(mentions, lv[p].stored_item[1].idTweet,
                                       ReplyTweetId, clock)
            /\ tweets' = tweets
       ELSE /\ tweets' = MarkReplied(tweets, lv[p].stored_item[1].idTweet,
                                     ReplyTweetId, clock)
            /\ mentions' = mentions
    /\ pc' = [pc EXCEPT ![p] = "d_log"]
    /\ UNCHANGED <<faults, budget, blocked_users, actions, twitter, clock, lv, ret>>

\* the Action ReplyToTweetUseCase logs; targetIdTweet 0 stands for None
DirectAction(p, success, found) ==
    [ actionType |-> "reply",
      success |-> success,
      targetTweetId |-> lv[p].tweet_id,
      targetIdTweet |-> IF found = {} THEN 0 ELSE (CHOOSE x \in found : TRUE).idTweet,
      targetUsername |-> IF found = {} THEN "unknown"
                         ELSE (CHOOSE x \in found : TRUE).authorUsername,
      resultTweetId |-> IF success THEN Some(ReplyTweetId) ELSE None,
      errorMessage |-> IF success THEN None ELSE lv[p].error_message,
      metadata |-> Some([reply_text |-> lv[p].text]) ]

\* _mark_as_replied_in_mongodb: log the successful action; execute returns
\* the result of reply_to_tweet
D_Log(p) ==
    /\ pc[p] = "d_log"
    /\ actions' = LogAction(actions, DirectAction(p, TRUE, {lv[p].stored_item[1]}))
    /\ Return(p, DirectResult("reply", "ok", lv[p].tweet_id, lv[p].text))
    /\ UNCHANGED <<faults, budget, mentions, tweets, blocked_users, twitter, clock>>

\* _log_failed_reply, then the re-raise
D_LogFail(p) ==
    /\ pc[p] = "d_logfail"
    /\ actions' = LogAction(actions,
                    DirectAction(p, FALSE, StoredByTweetId(lv[p].tweet_id)))
    /\ Return(p, DirectResult("reply", "TwitterRepositoryError",
                              lv[p].tweet_id, lv[p].text))
    /\ UNCHANGED <<faults, budget, mentions, tweets, blocked_users, twitter, clock>>

DirectReply(p) ==
    \/ D_Start(p)
    \/ D_ActOk(p)
    \/ D_ActFail(p)
    \/ D_Find(p)
    \/ D_Mark(p)
    \/ D_Log(p)
    \/ D_LogFail(p)

\* PostTweetUseCase.execute(text): the schema, then the text checks
P_Start(p) ==
    /\ CanStart(p)
    /\ budget' = budget - 1
    /\ \E text \in AnyTexts :
        IF SchemaRejects(text)
        THEN Return(p, DirectResult("post", "RequestValidationError", "", text))
        ELSE IF TextInvalid(text)
        THEN Return(p, DirectResult("post", "ValueError", "", text))
        ELSE /\ lv' = [lv EXCEPT ![p] = [LvIdle EXCEPT !.text = text]]
             /\ pc' = [pc EXCEPT ![p] = "p_act"]
             /\ ret' = [ret EXCEPT ![p] = RetNone]
    /\ UNCHANGED <<faults, mentions, tweets, blocked_users, actions, twitter, clock>>

\* post_tweet succeeds, and the return
P_ActOk(p) ==
    /\ pc[p] = "p_act"
    /\ twitter' = Append(twitter, DirectCall("post", "", lv[p].text, TRUE, None))
    /\ Return(p, DirectResult("post", "ok", "", lv[p].text))
    /\ UNCHANGED <<faults, budget, mentions, tweets, blocked_users, actions, clock>>

\* post_tweet raises TwitterRepositoryError, which execute re-raises
P_ActFail(p) ==
    /\ pc[p] = "p_act"
    /\ \E e_message \in ErrorMessages :
        twitter' = Append(twitter,
                DirectCall("post", "", lv[p].text, FALSE, Some(e_message)))
    /\ Return(p, DirectResult("post", "TwitterRepositoryError", "", lv[p].text))
    /\ UNCHANGED <<faults, budget, mentions, tweets, blocked_users, actions, clock>>

PostTweet(p) == P_Start(p) \/ P_ActOk(p) \/ P_ActFail(p)

\* step 1 of a resolve request with any text
R_LookupAny(p) == R_LookupWith(p, AnyTexts)

ResolveAny(p) ==
    \/ R_LookupAny(p)
    \/ R_ActOk(p)
    \/ R_ActFail(p)
    \/ R_Mark(p)
    \/ R_LogOk(p)
    \/ R_LogFail(p)

InitDirect ==
    /\ mentions = {}
    /\ tweets = {}
    /\ blocked_users = {}
    /\ actions = <<>>
    /\ twitter = <<>>
    /\ clock = 0
    /\ budget = MaxDirectOps
    /\ faults = NoFaults
    /\ pc = [p \in Procs |-> "idle"]
    /\ lv = [p \in Procs |-> LvIdle]
    /\ ret = [p \in Procs |-> RetNone]

NextDirect ==
    \/ MentionsQuery("p1")
    \/ ResolveAny("p1")
    \/ DirectReply("p1")
    \/ PostTweet("p1")

SpecDirect == InitDirect /\ [][NextDirect]_vars
(* ------------------------------------------------------------------ *)
(* SpecFault: one request at a time, on a store whose writes can fail   *)
(* ------------------------------------------------------------------ *)

\* another store write may fail
CanFail == faults.store + faults.mark + faults.log < MaxFaults

\* an ingest loop that lets the store's exception end the batch
AfterStoreError_Abort(raw) == <<>>

\* the ingest loop's "except Exception" around one item: log the error and go
\* on with the items after it
AfterStoreError(raw) == Tail(raw)

\* a log_action that lets the exception of insert_one through
AfterLogError_Raise(status) == "Exception"

\* log_action's "except Exception": log the error and return, so the caller
\* goes on to the outcome it had
AfterLogError(status) == status

\* step 2 of the mentions query when store_mention raises
MQ_StoreFail(p) ==
    /\ pc[p] = "mq_store"
    /\ lv[p].raw # <<>>
    /\ CanFail
    /\ faults' = [faults EXCEPT !.store = @ + 1]
    /\ clock' = clock + 1
    /\ lv' = [lv EXCEPT ![p].raw = AfterStoreError(@),
                        ![p].failed = @ \cup {Head(lv[p].raw)}]
    /\ UNCHANGED <<budget, mentions, tweets, blocked_users, actions, twitter, pc, ret>>

\* step 2 of the tweets query when store_tweet raises
TQ_StoreFail(p) ==
    /\ pc[p] = "tq_store"
    /\ lv[p].raw # <<>>
    /\ CanFail
    /\ faults' = [faults EXCEPT !.store = @ + 1]
    /\ clock' = clock + 1
    /\ lv' = [lv EXCEPT ![p].raw = AfterStoreError(@),
                        ![p].failed = @ \cup {Head(lv[p].raw)}]
    /\ UNCHANGED <<budget, mentions, tweets, blocked_users, actions, twitter, pc, ret>>

\* step 3 of a successful resolve when update_one raises inside
\* mark_mention_as_replied / mark_tweet_as_replied: nothing catches it before
\* the route
R_MarkFail(p) ==
    /\ pc[p] = "r_mark"
    /\ CanFail
    /\ faults' = [faults EXCEPT !.mark = @ + 1]
    /\ Return(p, ResolveResult("Exception", lv[p].stored_item[1].tweetId,
                               lv[p].id_tweet, lv[p].quoted))
    /\ UNCHANGED <<budget, mentions, tweets, blocked_users, actions, twitter, clock>>

\* step 4 of a successful resolve when insert_one raises inside log_action
R_LogOkLost(p) ==
    /\ pc[p] = "r_logok"
    /\ CanFail
    /\ faults' = [faults EXCEPT !.log = @ + 1]
    /\ Return(p, ResolveResult(AfterLogError("ok"), lv[p].stored_item[1].tweetId,
                               lv[p].id_tweet, lv[p].quoted))
    /\ UNCHANGED <<budget, mentions, tweets, blocked_users, actions, twitter, clock>>

\* the except branch of a failed resolve when insert_one raises inside
\* log_action
R_LogFailLost(p) ==
    /\ pc[p] = "r_logfail"
    /\ CanFail
    /\ faults' = [faults EXCEPT !.log = @ + 1]
    /\ Return(p, ResolveResult(AfterLogError("TwitterRepositoryError"),
                               lv[p].stored_item[1].tweetId,
                               lv[p].id_tweet, lv[p].quoted))
    /\ UNCHANGED <<budget, mentions, tweets, blocked_users, actions, twitter, clock>>

InitFault ==
    /\ mentions = {}
    /\ tweets = {}
    /\ blocked_users = {}
    /\ actions = <<>>
    /\ twitter = <<>>
    /\ clock = 0
    /\ budget = MaxFaultOps
    /\ faults = NoFaults
    /\ pc = [p \in Procs |-> "idle"]
    /\ lv = [p \in Procs |-> LvIdle]
    /\ ret = [p \in Procs |-> RetNone]

NextFault ==
    \/ Request("p1")
    \/ MQ_StoreFail("p1")
    \/ TQ_StoreFail("p1")
    \/ R_MarkFail("p1")
    \/ R_LogOkLost("p1")
    \/ R_LogFailLost("p1")

SpecFault == InitFault /\ [][NextFault]_vars

(* ------------------------------------------------------------------ *)
(* Properties                                                           *)
(* ------------------------------------------------------------------ *)

\* the step in which request p returns the result of a mentions query
MentionsReturn(p) ==
    /\ pc[p] # "idle"
    /\ pc'[p] = "idle"
    /\ ret'[p].op = "mentions"

\* the step in which request p stores one fetched tweet
Ingests(p) == MQ_Store(p) \/ TQ_Store(p)

\* the document of a collection with this idTweet
DocOf(coll, i) == CHOOSE x \in coll : x.idTweet = i

KeepsIdTweet(old, new) ==
    \A x \in old : \A y \in new : x.tweetId = y.tweetId => y.idTweet = x.idTweet

\* C1: re-ingesting an external id that is already stored leaves the stored
\* record's idTweet equal to the one assigned at first ingestion: no step
\* changes the idTweet of a stored tweetId.
C1_IdTweetStable ==
    [][KeepsIdTweet(mentions, mentions') /\ KeepsIdTweet(tweets, tweets')]_vars

KeepsResolution(old, new) ==
    \A x \in old : \A y \in new :
        (x.tweetId = y.tweetId /\ (x.repliedTo \/ x.ignored)) =>
            /\ y.repliedTo = x.repliedTo
            /\ y.repliedAt = x.repliedAt
            /\ y.replyTweetId = x.replyTweetId
            /\ y.ignored = x.ignored
            /\ y.ignoredReason = x.ignoredReason
            /\ y.ignoredAt = x.ignoredAt

\* C2: ingestion never overwrites resolution state: a store_mention /
\* store_tweet step leaves repliedTo, repliedAt, replyTweetId, ignored,
\* ignoredReason and ignoredAt of every replied or ignored item as they were.
C2_ResolutionKept ==
    [][(\E p \in Procs : Ingests(p)) =>
          (KeepsResolution(mentions, mentions') /\ KeepsResolution(tweets, tweets'))]_vars

\* C3: terminal states are never left through resolve or the abuse filter, so
\* no stored item ever has both repliedTo = true and ignored = true.
C3_NeverRepliedAndIgnored ==
    \A x \in mentions \cup tweets : ~(x.repliedTo /\ x.ignored)

\* C4: after a resolve of an item has succeeded, the item (by its external
\* id) is absent from the result of every later unanswered-mentions query:
\* no query returns a tweetId that had a successful reply/quote when the
\* query started.
C4_ResolvedStaysOut ==
    [][\A p \in Procs :
          MentionsReturn(p) =>
              \A i \in DOMAIN ret'[p].items :
                  ret'[p].items[i].tweetId \notin lv[p].seen_ok]_vars

\* C5: two overlapping resolve calls on one unresolved item both pass the
\* already-replied check: every request about to call the Tweet Source read
\* the item as not replied, whatever another request wrote since; C5_TwoRemote
\* is the state in which the Tweet Source performed two remote actions for
\* one internal id.
C5_PassedCheckUnreplied ==
    \A p \in Procs :
        pc[p] = "r_act" => lv[p].stored_item[1].repliedTo = FALSE

C5_TwoRemote ==
    \E i, j \in DOMAIN twitter :
        /\ i < j
        /\ twitter[i].ok /\ twitter[j].ok
        /\ twitter[i].idTweet = twitter[j].idTweet

\* C6: the sequence an unscoped unanswered-mentions query returns holds at
\* most one item per author.
C6_OnePerAuthor ==
    \A p \in Procs :
        ret[p].op = "mentions" =>
            \A i, j \in DOMAIN ret[p].items :
                ret[p].items[i].authorUsername = ret[p].items[j].authorUsername
                    => i = j

\* a query returned two items while another mention of one of their authors
\* was set aside as a duplicate
C6_Deduplicated ==
    /\ ret["p1"].op = "mentions"
    /\ Len(ret["p1"].items) = 2
    /\ \E x \in mentions :
        /\ x.ignoredReason = Some(DUPLICATE_USER)
        /\ \E i \in DOMAIN ret["p1"].items :
            /\ ret["p1"].items[i].authorUsername = x.authorUsername
            /\ ret["p1"].items[i].idTweet # x.idTweet

\* all_mentions of the query request p is about to return from
Scanned(p) ==
    IF pc[p] = "mq_find"
    THEN FindUnanswered(mentions, lv[p].blocked_usernames, lv[p].count)
    ELSE lv[p].all_mentions

ResultIds(r) == {r.items[i].idTweet : i \in DOMAIN r.items}

AuthorsUpTo(s, k) == {s[j].authorUsername : j \in 1..k}

\* the position at which the limit-th distinct author of s appears, and the
\* length of s if there are fewer authors
StopAt(s, limit) ==
    IF \E k \in DOMAIN s : Cardinality(AuthorsUpTo(s, k)) >= limit
    THEN CHOOSE k \in DOMAIN s :
            /\ Cardinality(AuthorsUpTo(s, k)) >= limit
            /\ \A j \in 1..(k - 1) : Cardinality(AuthorsUpTo(s, j)) < limit
    ELSE Len(s)

FirstOfAuthor(s, i) ==
    \A j \in 1..(i - 1) : s[j].authorUsername # s[i].authorUsername

IgnoredAsDuplicate(x) ==
    x.ignored /\ x.ignoredReason = Some(DUPLICATE_USER)

CheckedUser(p) == Head(lv[p].to_ignore)[2]

CountRead(p) ==
    IF pc[p] = "mq_count"
    THEN IgnoredCount(mentions, CheckedUser(p))
    ELSE lv[p].ignored_count

\* the step in which check_and_block_user of request p returns
CheckReturns(p) ==
    /\ pc[p] \in {"mq_count", "mq_block"}
    /\ pc'[p] \in {"mq_mark", "idle"}

\* C8: once an author's count of ignored mentions has reached the threshold
\* when a duplicate of theirs was marked ignored, a blocked_users record of
\* the author exists; and no unscoped query returns an item by an author who
\* was blocked when the query started, whatever was ingested since.
C8_BlockedStaysOut ==
    [][\A p \in Procs :
          /\ (CheckReturns(p) /\ CountRead(p) >= MAX_IGNORED_BEFORE_BLOCK)
                => CheckedUser(p) \in {b.username : b \in blocked_users'}
          /\ MentionsReturn(p) =>
                \A i \in DOMAIN ret'[p].items :
                    ret'[p].items[i].authorUsername \notin lv[p].seen_blocked]_vars

\* a query returned items it ingested after an author was blocked, while an
\* unresolved mention of that author, ingested after the block, is stored
C8_BlockedAuthorReingested ==
    \E b \in blocked_users :
        /\ \E x \in mentions :
            /\ x.authorUsername = b.username
            /\ x.repliedTo = FALSE /\ x.ignored = FALSE
            /\ x.firstSeenAt > b.blockedAt
        /\ ret["p1"].op = "mentions"
        /\ ret["p1"].items # <<>>
        /\ \A i \in DOMAIN ret["p1"].items : ret["p1"].items[i].idTweet > b.blockedAt

\* C9: whenever the abuse filter creates a blocked_users record for an
\* author, an audit entry of kind block for that author is in the audit log
\* (at the latest when the query that blocked has returned).
C9_BlockAudited ==
    (\A p \in Procs : pc[p] = "idle") =>
        \A b \in blocked_users :
            \E i \in DOMAIN actions :
                /\ actions[i].actionType = "block"
                /\ actions[i].targetUsername = b.username

\* C10: after any sequence of ingestions, including ingestion of the same
\* tweet both as a mention and as a regular tweet, no two stored items share
\* an external id.
C10_OnePerExternalId ==
    \A x, y \in mentions \cup tweets : x.tweetId = y.tweetId => x = y


(* ------------------------------------------------------------------ *)
(* C11                                                                  *)
(* ------------------------------------------------------------------ *)

\* the documents of a collection that hold external id t
WithTweetId(coll, t) == {x \in coll : x.tweetId = t}

\* one store step of request p on external id t: the request stays in its
\* ingest loop (the store raised nothing), a stored id is updated in
\* place, and one document holds the id afterwards
StoredOnce(p, coll, collNext, t) ==
    /\ pc'[p] = pc[p]
    /\ lv'[p].raw = Tail(lv[p].raw)
    /\ WithTweetId(coll, t) # {} => Cardinality(collNext) = Cardinality(coll)
    /\ Cardinality(WithTweetId(collNext, t)) = 1

\* C11: when two overlapping requests ingest the same external id, neither
\* store call fails: the one whose insert meets the unique key updates the
\* stored document instead, and the collection holds exactly one document
\* for that id afterwards.
C11_ConcurrentUpsert ==
    [][\A p \in Procs :
        /\ MQ_Store(p) => StoredOnce(p, mentions, mentions', Head(lv[p].raw))
        /\ TQ_Store(p) => StoredOnce(p, tweets, tweets', Head(lv[p].raw))]_vars

\* both requests fetched t1 for the tweets collection before either stored
\* it, both have stored it, and one document holds it
C11_BothStored ==
    /\ \A p \in Procs :
        /\ pc[p] = "tq_store"
        /\ lv[p].started_at = lv["p1"].started_at
        /\ "t1" \in {ReadLastTweets(lv[p].username, lv[p].count * 2)[i] :
                        i \in 1..Len(ReadLastTweets(lv[p].username, lv[p].count * 2))}
        /\ \A i \in 1..Len(lv[p].raw) : lv[p].raw[i] # "t1"
    /\ Cardinality(WithTweetId(tweets, "t1")) = 1


(* ------------------------------------------------------------------ *)
(* C12, C13                                                             *)
(* ------------------------------------------------------------------ *)

\* the idTweet a resolve request that has just run its lookup was called with
Requested(p) ==
    IF pc'[p] = "idle" THEN ret'[p].items[1].idTweet ELSE lv'[p].id_tweet

\* the stored documents that hold internal id i
Holding(i) == {x \in mentions \cup tweets : x.idTweet = i}

\* the step leaves the stores, the audit log and the Tweet Source alone
NothingWritten == UNCHANGED <<mentions, tweets, blocked_users, actions, twitter>>

\* C12: a resolve request whose internal id no stored item holds ends in its
\* first step with the not-found error (ValueError, HTTP 404): the Tweet
\* Source is not called, no store changes and no audit entry is written.
C12_UnknownIdNotFound ==
    [][\A p \in Procs :
        (R_Lookup(p) /\ Holding(Requested(p)) = {})
            => /\ pc'[p] = "idle"
               /\ ret'[p].op = "resolve"
               /\ ret'[p].status = "ValueError"
               /\ HttpStatus(ret'[p].status) = 404
               /\ NothingWritten]_vars

\* a resolve has failed with not-found on a store that holds items
C12_NotFoundReturned ==
    /\ ret["p1"].op = "resolve"
    /\ ret["p1"].status = "ValueError"
    /\ Holding(ret["p1"].items[1].idTweet) = {}
    /\ mentions # {}
    /\ tweets # {}


\* C13: a resolve request on an item that is already replied ends in its
\* first step with a returned result (no error raised, HTTP 200) whose error
\* code is ALREADY_REPLIED: the Tweet Source is not called, no audit entry is
\* written and the stored item keeps every field.
C13_AlreadyRepliedRejected ==
    [][\A p \in Procs :
        (R_Lookup(p) /\ \E x \in Holding(Requested(p)) : x.repliedTo)
            => /\ pc'[p] = "idle"
               /\ ret'[p].op = "resolve"
               /\ ret'[p].status = "ALREADY_REPLIED"
               /\ HttpStatus(ret'[p].status) = 200
               /\ NothingWritten]_vars

\* a resolve of a replied item has returned ALREADY_REPLIED
C13_RejectedReturned ==
    /\ ret["p1"].op = "resolve"
    /\ ret["p1"].status = "ALREADY_REPLIED"
    /\ \E x \in Holding(ret["p1"].items[1].idTweet) :
          x.repliedTo /\ x.tweetId = ret["p1"].items[1].tweetId


(* ------------------------------------------------------------------ *)
(* C14, C15                                                             *)
(* ------------------------------------------------------------------ *)

\* the external ids of the tweets the Tweet Source has posted for resolve
PostedIds == {twitter[i].created : i \in 1..Len(twitter)} \ {None}

\* C14: an item that resolve has set Replied records the external id of the
\* reply or quote the Tweet Source posted for it.
C14_ResultIdRecorded ==
    \A x \in mentions \cup tweets : x.repliedTo => x.replyTweetId \in PostedIds

\* the rest of C14, stated on the return step of a successful resolve: the
\* item is Replied and the step appends one success entry whose metadata
\* holds the text and the quoted flag of the request
SuccessRecorded ==
    [][\A p \in Procs : R_LogOk(p) =>
        /\ \E x \in Holding(lv[p].id_tweet) : x.repliedTo /\ x.repliedAt # None
        /\ Len(actions') = Len(actions) + 1
        /\ LET a == actions'[Len(actions')]
           IN  /\ a.success
               /\ a.actionType = ActionType(lv[p].quoted)
               /\ a.targetIdTweet = lv[p].id_tweet
               /\ a.metadata = Some([text |-> lv[p].text, quoted |-> lv[p].quoted])]_vars


\* C15: when the Tweet Source call of a resolve fails, the request ends by
\* propagating that error (TwitterRepositoryError, HTTP 503), the stored item
\* is the one the request looked up, still not replied, and the closing step
\* appends one failure entry that carries the message of the raised error.
C15_FailureRecorded ==
    [][R_LogFail("p1") =>
        /\ ret'["p1"].status = "TwitterRepositoryError"
        /\ HttpStatus(ret'["p1"].status) = 503
        /\ Holding(lv["p1"].id_tweet) = {lv["p1"].stored_item[1]}
        /\ \A x \in Holding(lv["p1"].id_tweet) : ~x.repliedTo
        /\ UNCHANGED <<mentions, tweets>>
        /\ Len(actions') = Len(actions) + 1
        /\ LET a == actions'[Len(actions')]
               call == twitter[Len(twitter)]
           IN  /\ ~a.success
               /\ ~call.ok
               /\ call.idTweet = a.targetIdTweet
               /\ a.actionType = call.kind
               /\ a.errorMessage # None
               /\ a.errorMessage = call.error]_vars

\* a resolve has failed at the Tweet Source for a reply and, later, for a
\* quote: the log ends with the quote's failure entry
C15_FailedBothKinds ==
    /\ ret["p1"].status = "TwitterRepositoryError"
    /\ Len(actions) >= 2
    /\ ~actions[Len(actions)].success
    /\ actions[Len(actions)].actionType = "quote_tweet"
    /\ \E i \in 1..Len(actions) - 1 :
          ~actions[i].success /\ actions[i].actionType = "reply"
    /\ \A x \in Holding(ret["p1"].items[1].idTweet) : ~x.repliedTo


(* ------------------------------------------------------------------ *)
(* C16, C17, C18                                                        *)
(* ------------------------------------------------------------------ *)

\* positions of the reply/quote entries of the audit log
ReplyEntries ==
    {i \in 1..Len(actions) : actions[i].actionType \in {"reply", "quote_tweet"}}

\* the requests that have called the Tweet Source and not yet logged the call
AwaitingLog == {p \in Procs : pc[p] \in {"r_mark", "r_logok", "r_logfail"}}

\* no request is running
Quiescent == \A p \in Procs : pc[p] = "idle"

\* C16: once the resolve calls have returned, the audit log holds as many
\* reply/quote entries as resolve made reply/quote calls to the Tweet Source,
\* failed calls included.
C16_OneEntryPerCall ==
    Quiescent => Cardinality(ReplyEntries) = Len(twitter)

\* what the code keeps instead: every reply/quote call made to the Tweet
\* Source is matched by one reply/quote entry, by one store write of that
\* resolve that failed (the audit write, swallowed, or the mark-replied
\* write, which ends the request before it logs), or by a request that has
\* yet to log it; no entry exists without a call
EntryOrFailedWritePerCall ==
    Cardinality(ReplyEntries) + faults.log + faults.mark + Cardinality(AwaitingLog)
        = Len(twitter)

\* a call that succeeded at the Tweet Source has no entry because the
\* mark-replied write failed
CallWithoutEntry ==
    /\ Quiescent
    /\ Len(twitter) = 1
    /\ twitter[1].ok
    /\ faults.mark = 1
    /\ ReplyEntries = {}
    /\ ret["p1"].status = "Exception"


\* C17: the audit log is append-only: every step leaves the entries the log
\* already holds in place and unchanged, so the log of a later state extends
\* the log of every earlier state.
C17_AppendOnly ==
    [][/\ Len(actions') >= Len(actions)
       /\ SubSeq(actions', 1, Len(actions)) = actions]_vars

\* the log has been extended twice and holds a failure before a success
C17_LogExtended ==
    /\ Len(actions) >= 3
    /\ ~actions[1].success
    /\ actions[Len(actions)].success


\* C18: a resolve whose audit write fails ends as it would have ended with
\* the entry written: after a successful Tweet Source call it returns success
\* (HTTP 200) with the item Replied, after a failed call it propagates the
\* Tweet Source error (HTTP 503); the log is left as it was.
C18_LostAuditKeepsOutcome ==
    [][/\ R_LogOkLost("p1") =>
            /\ ret'["p1"].op = "resolve"
            /\ ret'["p1"].status = "ok"
            /\ HttpStatus(ret'["p1"].status) = 200
            /\ twitter[Len(twitter)].ok
            /\ \E x \in Holding(lv["p1"].id_tweet) : x.repliedTo
            /\ UNCHANGED <<mentions, tweets, actions>>
       /\ R_LogFailLost("p1") =>
            /\ ret'["p1"].op = "resolve"
            /\ ret'["p1"].status = "TwitterRepositoryError"
            /\ HttpStatus(ret'["p1"].status) = 503
            /\ ~twitter[Len(twitter)].ok
            /\ UNCHANGED <<mentions, tweets, actions>>]_vars

\* a resolve has returned success although its audit write failed: the item
\* is Replied and the log is empty
C18_SuccessWithoutEntry ==
    /\ faults.log = 1
    /\ ret["p1"].status = "ok"
    /\ \E x \in Holding(ret["p1"].items[1].idTweet) : x.repliedTo
    /\ Len(twitter) = 1
    /\ actions = <<>>


(* ------------------------------------------------------------------ *)
(* C19                                                                  *)
(* ------------------------------------------------------------------ *)

\* request p returns from an unanswered query in this step
QueryReturn(p) ==
    /\ pc[p] # "idle"
    /\ pc'[p] = "idle"
    /\ ret'[p].op \in {"mentions", "tweets"}

\* the external ids the returning query of p fetched in its first step
Fetched(p) ==
    LET raw_tweets == IF ret'[p].op = "mentions"
                      THEN ReadLastMentions(lv[p].count * 2)
                      ELSE ReadLastTweets(lv[p].username, lv[p].count * 2)
    IN  {raw_tweets[i] : i \in 1..Len(raw_tweets)}

\* the collection the returning query of p ingests into
IngestedInto(p) == IF ret'[p].op = "mentions" THEN mentions ELSE tweets

\* C19: when the store fails for one fetched item of an unanswered query, the
\* batch goes on: at the query's return every other fetched item has been
\* upserted by this request, and the query has run and returned a result.
C19_StoreFailureIsolated ==
    [][QueryReturn("p1") =>
        /\ ret'["p1"].status = "ok"
        /\ \A t \in Fetched("p1") \ lv["p1"].failed :
              \E x \in IngestedInto("p1") :
                  /\ x.tweetId = t
                  /\ x.lastUpdatedAt > lv["p1"].started_at
        /\ \A i \in DOMAIN ret'["p1"].items :
              \E x \in IngestedInto("p1") : x.idTweet = ret'["p1"].items[i].idTweet]_vars

\* a query that fetched t3, t2, t1 has returned after the store failed for
\* t2: t3 and t1 are stored, and both are returned
C19_MiddleItemFailed ==
    /\ faults.store = 1
    /\ ret["p1"].op = "mentions"
    /\ ret["p1"].status = "ok"
    /\ {x.tweetId : x \in mentions} = {"t3", "t1"}
    /\ {ret["p1"].items[i].tweetId : i \in DOMAIN ret["p1"].items} = {"t3", "t1"}


(* ------------------------------------------------------------------ *)
(* C20                                                                  *)
(* ------------------------------------------------------------------ *)

\* the items of the last result of request p, when it is a query result
Returned(p) ==
    IF ret[p].op \in {"mentions", "tweets"}
    THEN {ret[p].items[i] : i \in DOMAIN ret[p].items}
    ELSE {}

\* C20: every item an unanswered query returns, for mentions and for the
\* tweets of one author, is returned with repliedTo = false and
\* ignored = false.
C20_ReturnedUnresolved ==
    \A p \in Procs : \A item \in Returned(p) :
        /\ item.repliedTo = FALSE
        /\ item.ignored = FALSE

\* a tweets query has returned t1 while t2 of the same author is stored as
\* replied: the replied tweet was left out
C20_RepliedLeftOut ==
    \E p \in Procs :
        /\ ret[p].op = "tweets"
        /\ {item.tweetId : item \in Returned(p)} = {"t1"}
        /\ \E x \in tweets : x.tweetId = "t2" /\ x.repliedTo


(* ------------------------------------------------------------------ *)
(* C21                                                                  *)
(* ------------------------------------------------------------------ *)

\* the step marks no mention ignored that was not ignored before
NoneIgnoredByStep ==
    \A x \in mentions' : x.ignored =>
        \E y \in mentions : y.tweetId = x.tweetId /\ y.ignored

\* C21: a mentions query scoped to one author returns at most limit items,
\* each an unreplied, unignored stored mention of that author, and none of
\* its steps marks a mention ignored or adds a blocked author, also when it
\* returns several mentions of the author.
C21_ScopedNoSideEffect ==
    [][/\ ScopedQuery("p1") => (NoneIgnoredByStep /\ UNCHANGED <<blocked_users, actions>>)
       /\ SQ_Find("p1") =>
            /\ UNCHANGED mentions
            /\ Len(ret'["p1"].items) <= lv["p1"].count
            /\ \A i \in DOMAIN ret'["p1"].items :
                  LET item == ret'["p1"].items[i] IN
                  /\ item.authorUsername = lv["p1"].username
                  /\ ~item.repliedTo
                  /\ ~item.ignored
                  /\ \E x \in mentions :
                        /\ x.idTweet = item.idTweet
                        /\ x.authorUsername = lv["p1"].username
                        /\ ~x.repliedTo
                        /\ ~x.ignored]_vars

\* a scoped query has returned two mentions of author a; neither is ignored
\* and no author is blocked
C21_TwoOfOneAuthor ==
    /\ ret["p1"].op = "scoped"
    /\ Len(ret["p1"].items) = 2
    /\ \A i \in 1..2 : ret["p1"].items[i].authorUsername = "a"
    /\ \A x \in mentions : ~x.ignored
    /\ blocked_users = {}
    /\ \E x \in mentions : x.authorUsername = "b"


(* ------------------------------------------------------------------ *)
(* C22                                                                  *)
(* ------------------------------------------------------------------ *)

\* the author request p is about to block
BlockTarget(p) == Head(lv[p].to_ignore)[2]

\* C22: no step removes or changes a blocked-author record, the collection
\* holds one record per username, and a block of an author who is already
\* blocked, as when two overlapping queries block the same author, adds no
\* record and lets the query go on to its result.
C22_BlockedOnceForGood ==
    [][/\ blocked_users \subseteq blocked_users'
       /\ \A b1, b2 \in blocked_users' : b1.username = b2.username => b1 = b2
       /\ \A p \in Procs :
            MQ_Block(p) =>
                /\ BlockTarget(p) \in {b.username : b \in blocked_users'}
                /\ BlockTarget(p) \in BlockedUsernames => blocked_users' = blocked_users
                /\ pc'[p] \in {"idle", "mq_mark"}
                /\ pc'[p] = "idle" => ret'[p].status = "ok"]_vars

\* a request is about to block an author whom an overlapping request has
\* blocked since this one read the blocked list
C22_SecondBlock ==
    \E p \in Procs :
        /\ pc[p] = "mq_block"
        /\ BlockTarget(p) \in BlockedUsernames


(* ------------------------------------------------------------------ *)
(* C23                                                                  *)
(* ------------------------------------------------------------------ *)

\* the external ids that were stored as unresolved mentions when a reply by
\* external id to them succeeded at the Tweet Source
RepliedByExternalId ==
    {twitter[i].tweetId : i \in {j \in 1..Len(twitter) :
        /\ twitter[j].idTweet = 0
        /\ twitter[j].kind = "reply"
        /\ twitter[j].ok
        /\ twitter[j].target_state = "unresolved_mention"}}

\* C23: a mention that a successful reply by external id has answered is
\* marked replied, so no unanswered-mentions query that starts afterwards
\* returns it.
C23_DirectReplyStaysOut ==
    [][MentionsReturn("p1") =>
        \A i \in DOMAIN ret'["p1"].items :
            ret'["p1"].items[i].tweetId \notin RepliedByExternalId]_vars

\* the reply by external id has marked the mention it answered
DirectReplyMarked ==
    /\ ret["p1"].op = "reply"
    /\ ret["p1"].status = "ok"
    /\ \E m \in mentions :
          /\ m.tweetId = ret["p1"].items[1].tweetId
          /\ m.tweetId \in RepliedByExternalId
          /\ m.repliedTo

(* ------------------------------------------------------------------ *)
(* C25                                                                  *)
(* ------------------------------------------------------------------ *)

\* C25: no call the Tweet Source receives carries an empty or
\* whitespace-only text: reply by external id, post and resolve by internal
\* id reject such a text before they call the Tweet Source.
C25_NoBlankTextSent ==
    \A i \in 1..Len(twitter) : Strip(twitter[i].text) # <<>>

\* the same for reply by external id and post alone, which test the text
BlankTextRejectedDirect ==
    \A i \in 1..Len(twitter) :
        twitter[i].idTweet = 0 => Strip(twitter[i].text) # <<>>


\* ---------------------------------------------------------------------
\* C24  firstSeenAt is set once.
\* ---------------------------------------------------------------------

\* The stored documents of a collection that carry the external id t.
WithExternalId(coll, t) == {x \in coll : x.tweetId = t}

\* C24: a step that stores an external id which already has a document (a
\* re-ingest) leaves that document's firstSeenAt at its creation value and
\* sets lastUpdatedAt to the time of this upsert, so firstSeenAt is never
\* later than lastUpdatedAt and never changes while the record lives.
C24_FirstSeenKept ==
    [][\A coll \in {"mentions", "tweets"} :
        LET before == IF coll = "mentions" THEN mentions ELSE tweets
            after  == IF coll = "mentions" THEN mentions' ELSE tweets'
        IN  \A x \in before : \A y \in WithExternalId(after, x.tweetId) :
                /\ y.firstSeenAt = x.firstSeenAt
                /\ y.firstSeenAt <= y.lastUpdatedAt]_vars

\* The part of C24 the code keeps: every stored document has
\* firstSeenAt <= lastUpdatedAt.
C24_UpdatedNotBeforeSeen ==
    \A x \in mentions \cup tweets : x.firstSeenAt <= x.lastUpdatedAt


\* ---------------------------------------------------------------------
\* C26  The unscoped result is the reference selection over the buffer.
\* ---------------------------------------------------------------------

\* the positions of s that hold the first item of their author
FirstPositions(s) == {i \in DOMAIN s : FirstOfAuthor(s, i)}

\* the reference selection: the first item of each distinct author of s, in
\* the order of s, cut to the first limit authors
ReferenceSelection(s, limit) ==
    LET F      == FirstPositions(s)
        n      == IF Cardinality(F) <= limit THEN Cardinality(F) ELSE limit
        nth(k) == CHOOSE i \in F : Cardinality({j \in F : j <= i}) = k
    IN  [k \in 1..n |-> s[nth(k)]]

\* C26: the result of an unscoped query is the reference selection over the
\* scanned buffer, item for item and in buffer order, so its length is the
\* smaller of limit and the number of distinct authors in the buffer.
C26_ResultIsReference ==
    [][MentionsReturn("p1") =>
        LET s   == Scanned("p1")
            ref == ReferenceSelection(s, lv["p1"].count)
            n   == Cardinality(AuthorsUpTo(s, Len(s)))
        IN  /\ ret'["p1"].items = [k \in DOMAIN ref |-> ToApiDict(ref[k])]
            /\ Len(ret'["p1"].items) =
                 IF n <= lv["p1"].count THEN n ELSE lv["p1"].count]_vars

\* A query has returned two items; a mention of the first item's author,
\* seen between the two, is now ignored as a duplicate, and an older
\* unresolved mention of a third author was cut off by the limit.
C26_DuplicateSkippedAndCut ==
    /\ pc["p1"] = "idle"
    /\ ret["p1"].op = "mentions"
    /\ Len(ret["p1"].items) = 2
    /\ LET a == DocOf(mentions, ret["p1"].items[1].idTweet)
           b == DocOf(mentions, ret["p1"].items[2].idTweet)
       IN  /\ \E x \in mentions :
                /\ IgnoredAsDuplicate(x)
                /\ x.authorUsername = a.authorUsername
                /\ x.firstSeenAt < a.firstSeenAt
                /\ x.firstSeenAt > b.firstSeenAt
           /\ \E y \in mentions :
                /\ ~y.ignored
                /\ y.authorUsername \notin {a.authorUsername, b.authorUsername}
                /\ y.firstSeenAt < b.firstSeenAt


\* ---------------------------------------------------------------------
\* C27  At most one successful answer per external id, sequentially.
\* ---------------------------------------------------------------------

\* C27: with one request at a time, the Tweet Source performs at most one
\* successful reply or quote per external id: after an item was answered no
\* later resolve, by whichever internal id, reaches the Tweet Source for it.
\* Stated for runs of mentions queries and resolves (no tweets query ran).
C27_AnsweredOnce ==
    tweets = {} =>
        \A i \in 1..Len(twitter) :
            twitter[i].ok =>
                \A j \in (i + 1)..Len(twitter) :
                    twitter[j].tweetId # twitter[i].tweetId


\* ---------------------------------------------------------------------
\* C28  A successful resolve leaves the item Replied.
\* ---------------------------------------------------------------------

\* the step in which the resolve of request p returns success = true
ResolveSucceeds(p) ==
    /\ pc[p] = "r_logok"
    /\ pc'[p] = "idle"
    /\ ret'[p].status = "ok"

\* C28: whenever resolve returns success = true, the stored record with the
\* item's external id is Replied (repliedTo true with the reply id
\* recorded), also when another request ingested the same external id
\* between this resolve's lookup and its state write.
C28_SuccessMeansReplied ==
    [][\A p \in Procs :
          ResolveSucceeds(p) =>
              \A x \in WithExternalId(mentions' \cup tweets',
                                        lv[p].stored_item[1].tweetId) :
                  x.type = lv[p].stored_item[1].type =>
                      x.repliedTo /\ x.replyTweetId # None]_vars

\* A resolve is about to write its state while the record of its item no
\* longer has the internal id the resolve looked up.
C28_ReingestedSinceLookup ==
    \E p \in Procs :
        /\ pc[p] = "r_mark"
        /\ lv[p].stored_item[1].type = MENTION
        /\ WithExternalId(mentions, lv[p].stored_item[1].tweetId) # {}
        /\ \A x \in WithExternalId(mentions, lv[p].stored_item[1].tweetId) :
              x.idTweet # lv[p].id_tweet


\* ---------------------------------------------------------------------
\* C29  An author is blocked only with enough ignored mentions.
\* ---------------------------------------------------------------------

\* the authors a step adds a blocked_users record for
NewlyBlocked == {b.username : b \in blocked_users'} \ {b.username : b \in blocked_users}

\* C29: a blocked_users record is created only at a moment when the stored
\* mentions of that author with ignored = true number at least the
\* threshold, under any interleaving of overlapping unscoped queries.
C29_BlockedAtThreshold ==
    [][\A u \in NewlyBlocked :
          IgnoredCount(mentions, u) >= MAX_IGNORED_BEFORE_BLOCK]_vars

\* A request has counted enough ignored mentions of an author and is about
\* to block them, while the store no longer holds that many.
C29_CountStale ==
    \E p \in Procs :
        /\ pc[p] = "mq_block"
        /\ lv[p].ignored_count >= MAX_IGNORED_BEFORE_BLOCK
        /\ IgnoredCount(mentions, CheckedUser(p)) < MAX_IGNORED_BEFORE_BLOCK


(* ------------------------------------------------------------------ *)
(* SpecFrame: get_unanswered_mentions(limit, apply_abuse_filter=True)   *)
(* on its own, over a store that also holds a replied mention, a        *)
(* stored tweet and the audit entry of the reply                        *)
(* ------------------------------------------------------------------ *)

FrameAuthors == {"A", "B"}

\* the stored tweet of an earlier tweets query
FrameTweet == NewStoredTweet("t1", "a", 1, REGULAR, 0)

\* the Tweet Source call and the audit entry of an earlier resolve of the
\* r-th stored mention, which is by author u
FrameCall(r) ==
    [ kind |-> ActionType(FALSE), tweetId |-> "m" \o ToString(r), idTweet |-> r,
      text |-> <<"h", "i">>, ok |-> TRUE, created |-> Some("r1"), error |-> None ]

FrameAction(r, u) ==
    [ actionType |-> ActionType(FALSE), success |-> TRUE,
      targetTweetId |-> "m" \o ToString(r), targetIdTweet |-> r,
      targetUsername |-> u, resultTweetId |-> Some(ReplyTweetId),
      errorMessage |-> None,
      metadata |-> Some([text |-> <<"h", "i">>, quoted |-> FALSE]) ]

InitFrame ==
    /\ \E n \in 0..MaxStored :
         \E author_of \in [1..n -> FrameAuthors] :
           \E r \in 0..n :
            /\ mentions = IF r = 0 THEN StoreOf(n, author_of)
                          ELSE MarkReplied(StoreOf(n, author_of), r, ReplyTweetId, n + 1)
            /\ actions = IF r = 0 THEN <<>> ELSE <<FrameAction(r, author_of[r])>>
            /\ twitter = IF r = 0 THEN <<>> ELSE <<FrameCall(r)>>
            /\ clock = n + 1
    /\ tweets = {FrameTweet}
    /\ blocked_users = {}
    /\ budget = 1
    /\ faults = NoFaults
    /\ pc = [p \in Procs |-> "idle"]
    /\ lv = [p \in Procs |-> LvIdle]
    /\ ret = [p \in Procs |-> RetNone]

NextFrame ==
    \/ GM_Call("p1")
    \/ MQ_Blocked("p1")
    \/ MQ_Find("p1")
    \/ MQ_Mark("p1")
    \/ MQ_Count("p1")
    \/ MQ_Block("p1")

SpecFrame == InitFrame /\ [][NextFrame]_vars

\* ---------------------------------------------------------------------
\* C30  An unscoped query changes only the duplicates it marks.
\* ---------------------------------------------------------------------

IsReplyOrQuote(a) == a.actionType \in {ActionType(FALSE), ActionType(TRUE)}

\* the internal ids of the duplicates the running query has found
DuplicateIds(p) == {lv[p].to_ignore[i][1] : i \in DOMAIN lv[p].to_ignore}

\* C30: a step of an unscoped query changes no stored mention other than a
\* duplicate the query found in its buffer, which is unresolved; so replied
\* mentions and mentions outside the scanned buffer stay as they are, and so
\* do the stored tweets and the audit entries of kind reply and quote.  The
\* items it returns are unresolved and as they were when scanned.
C30_OnlyDuplicatesChange ==
    [][/\ tweets' = tweets
       /\ SelectSeq(actions', IsReplyOrQuote) = SelectSeq(actions, IsReplyOrQuote)
       /\ {x.idTweet : x \in mentions'} = {x.idTweet : x \in mentions}
       /\ \A x \in mentions :
            x \notin mentions' =>
                /\ x.idTweet \in DuplicateIds("p1")
                /\ x.idTweet \in {lv["p1"].all_mentions[i].idTweet :
                                    i \in DOMAIN lv["p1"].all_mentions}
                /\ ~x.repliedTo
       /\ MentionsReturn("p1") =>
            LET kept == IF pc["p1"] = "mq_find"
                        THEN AbuseFilter(Scanned("p1"), lv["p1"].count).filtered
                        ELSE lv["p1"].filtered
            IN  /\ Len(ret'["p1"].items) = Len(kept)
                /\ \A i \in DOMAIN kept :
                     /\ ret'["p1"].items[i].idTweet = kept[i].idTweet
                     /\ kept[i] \in mentions'
                     /\ ~kept[i].repliedTo /\ ~kept[i].ignored]_vars

\* A query has marked a duplicate while the store holds a replied mention,
\* an unresolved mention older than the whole buffer, a stored tweet and the
\* audit entry of a reply.
C30_MarkedBesideOthers ==
    /\ pc["p1"] = "mq_count"
    /\ \E x \in mentions : IgnoredAsDuplicate(x)
    /\ \E x \in mentions : x.repliedTo
    /\ \E x \in mentions :
        /\ ~x.repliedTo /\ ~x.ignored
        /\ \A i \in DOMAIN lv["p1"].all_mentions :
              x.firstSeenAt < lv["p1"].all_mentions[i].firstSeenAt
    /\ tweets # {}
    /\ SelectSeq(actions, IsReplyOrQuote) # <<>>

====
